---- MODULE Spec2Model ----
(***************************************************************************)
(* Model of gammapy/utils/serialization/io.py: the model-list codec        *)
(* (models_to_dict / dict_to_models with shared-parameter renaming and     *)
(* linking) and the dataset reconstructor (dict_to_datasets).              *)
(*                                                                         *)
(* Python objects live in a heap: `params` holds the Parameter objects,    *)
(* `conts` the Parameters containers (lists of references to Parameter     *)
(* objects) and `models` the model objects.  A reference is an index into  *)
(* the corresponding sequence, so object identity is equality of indices.  *)
(*                                                                         *)
(* A parameter name is [base, tail]: `base` is the text before the first   *)
(* "@" and `tail` lists the numbers k of the "@shared_k" pieces that       *)
(* follow it, so "index@shared_0" is [base |-> "index", tail |-> <<0>>].   *)
(* A piece that starts with "@" and is not "@shared_k", as in "norm@x",    *)
(* is listed as -1.                                                        *)
(***************************************************************************)
EXTENDS Integers, Sequences, FiniteSets, TLC

\* Longest list of models a caller passes to models_to_dict.
MaxList == 3
\* Most parameter slots that alias an earlier parameter object in the
\* models the caller builds.
MaxShared == 1
\* How often the caller feeds the reconstructed models back to models_to_dict.
MaxRounds == 1
\* How many parameter values the caller sets on the models it holds.
MaxEdits == 1
\* Most datasets in the index passed to dict_to_datasets.
MaxDatasets == 2
\* How often the caller calls dict_to_datasets again after it raised.
MaxRetries == 1

VARIABLES
    params,     \* heap: Parameter objects  [name, value, unit]
    conts,      \* heap: Parameters containers, each a list of Parameter refs
    models,     \* heap: model objects
    cur,        \* the list of models the caller holds and serializes
    pre,        \* the Parameter objects as they were when models_to_dict was called
    mi,         \* models_to_dict: position of the loop over `models`
    mdata,      \* models_to_dict: the local list models_data
    comps,      \* the value of data["components"] the caller holds
    link,       \* dict_to_models: the argument `link`
    out,        \* dict_to_models: the list `models` it builds and returns
    raised,     \* the exception the last call left the caller with ("" if none)
    rounds,     \* reconstructed lists the caller has fed back so far
    edits,      \* parameter values the caller has set so far
    pc,         \* where the caller is
    index,      \* data_list["datasets"], the datasets index
    files,      \* the dataset files: the name of the background each one stores
    dsets,      \* heap: MapDataset objects [name, bkgs, skymodels]
    cubes,      \* heap: SkyDiffuseCube objects [filename]
    reads,      \* the cube files this reconstruction has read, one entry per
                \* SkyDiffuseCube.read
    earlier,    \* the registers and the reads of the reconstructions that raised
    params_register,    \* self.params_register
    cube_register,      \* self.cube_register
    smodels,            \* self.models
    sbackgrounds,       \* self.backgrounds
    sdatasets,          \* self.datasets
    di,         \* dict_to_datasets: position of the loop over the index
    ci,         \* update_dataset: position of the loop over the components
    dataset,    \* update_dataset: the dataset being updated
    bkg_prev,   \* update_dataset: the local list bkg_prev
    backgrounds,        \* update_dataset: the local list backgrounds
    wdatasets,          \* datasets_to_dict: the argument `datasets`
    si,                 \* datasets_to_dict: position of the loop over the datasets
    models_list,        \* datasets_to_dict: the local list models_list
    backgrounds_list,   \* datasets_to_dict: the local list backgrounds_list
    datasets_dictlist,  \* datasets_to_dict: the local list datasets_dictlist
    written,            \* the dataset files datasets_to_dict has written
    datasets_dict,      \* datasets_to_dict: the returned datasets_dict["datasets"]
    components_dict     \* datasets_to_dict: the returned components_dict["components"]

\* the state of the dataset reconstructor
dsVars ==
    <<index, files, dsets, cubes, reads, earlier, params_register, cube_register,
      smodels, sbackgrounds, sdatasets, di, ci, dataset, bkg_prev, backgrounds>>

\* the state of datasets_to_dict
wrVars ==
    <<wdatasets, si, models_list, backgrounds_list, datasets_dictlist, written,
      datasets_dict, components_dict>>

\* the state of the caller of the model-list codec
codecVars == <<cur, pre, mi, mdata, link, out, rounds, edits>>

vars == <<params, conts, models, comps, raised, pc, codecVars, dsVars, wrVars>>

-----------------------------------------------------------------------------
(* Sequences *)

InSeq(x, s) == \E i \in 1..Len(s) : s[i] = x

\* list.index(x): the first position holding x
IndexOf(x, s) == CHOOSE i \in 1..Len(s) : s[i] = x /\ \A j \in 1..(i - 1) : s[j] # x

RECURSIVE Concat(_)
Concat(ss) == IF ss = <<>> THEN <<>> ELSE Head(ss) \o Concat(Tail(ss))

Seqs(S, lo, hi) == UNION {[1..n -> S] : n \in lo..hi}

\* One element of S, or a pair of them.
OneOrTwo(S) == {<<x>> : x \in S} \cup {<<x, y>> : x \in S, y \in S}

-----------------------------------------------------------------------------
(* Parameter names *)

Name(base) == [base |-> base, tail |-> <<>>]

\* "@" in name
HasAt(name) == name.tail # <<>>

\* "@shared_" in name
HasSharedToken(name) == \E i \in 1..Len(name.tail) : name.tail[i] >= 0

\* name + "@shared_" + str(k)
SharedName(name, k) == [name EXCEPT !.tail = Append(@, k)]

\* name.split("@")[0]
SplitAt0(name) == [name EXCEPT !.tail = <<>>]

\* The values a parameter takes in the model, and the one a model class
\* gives its parameters until another is set.
Values == {1, 2}

DefaultValue == CHOOSE v \in Values : \A w \in Values : v <= w

-----------------------------------------------------------------------------
(* The heap *)

Heap == [params |-> params, conts |-> conts, models |-> models]

NoHeap == [params |-> <<>>, conts |-> <<>>, models |-> <<>>]

\* model.parameters.parameters
Flat(h, m) == h.conts[h.models[m].pars]

\* Parameters.names
Names(h, c) == [i \in 1..Len(h.conts[c]) |-> h.params[h.conts[c][i]].name]

\* A new Parameter object; its reference is Len of the result's params.
AllocParam(h, name, value, unit) ==
    [h EXCEPT !.params = Append(@, [name |-> name, value |-> value, unit |-> unit])]

\* A new Parameters container over the given references.
AllocCont(h, refs) == [h EXCEPT !.conts = Append(@, refs)]

AllocModel(h, m) == [h EXCEPT !.models = Append(@, m)]

\* SkyModel(name, spatial_model, spectral_model): the flat collection is a
\* new list holding the spatial parameters followed by the spectral ones.
SkyModel(h, name, sptype, spars, sctype, cpars) ==
    LET h1 == AllocCont(h, h.conts[spars] \o h.conts[cpars])
    IN  AllocModel(h1, [cls |-> "SkyModel", name |-> name, filename |-> "",
                        pars |-> Len(h1.conts), sptype |-> sptype, spars |-> spars,
                        sctype |-> sctype, cpars |-> cpars, cube |-> 0])

\* A model that is no SkyModel: one Parameters container, no sub-models.
\* name = "" stands for an object without a name attribute.
PlainModel(h, cls, name, filename, pars, cube) ==
    AllocModel(h, [cls |-> cls, name |-> name, filename |-> filename,
                   pars |-> pars, sptype |-> "", spars |-> 0,
                   sctype |-> "", cpars |-> 0, cube |-> cube])

-----------------------------------------------------------------------------
(* Records of the components dict.  `keys` is the set of keys the Python   *)
(* dict has; a key that is absent holds the empty value of its kind, so    *)
(* equality of records is equality of the dicts.                           *)

NoSub == [type |-> "", parameters |-> <<>>]

\* Parameter.to_dict: name, value and unit of one parameter
ParToDict(p) == [name |-> p.name, value |-> p.value, unit |-> p.unit]

\* Model.to_dict(selection): the type and the parameters in slot order
ToDict(h, type, c) ==
    [type |-> type,
     parameters |-> [i \in 1..Len(h.conts[c]) |-> ParToDict(h.params[h.conts[c][i]])]]

\* Parameters.from_dict(item): a new container of new Parameter objects,
\* one per entry, carrying the entry's name, value and unit.
RECURSIVE FromDictFrom(_, _, _, _)
FromDictFrom(h, entries, i, refs) ==
    IF i > Len(entries) THEN AllocCont(h, refs)
    ELSE LET e == entries[i]
             h1 == AllocParam(h, e.name, e.value, e.unit)
         IN  FromDictFrom(h1, entries, i + 1, Append(refs, Len(h1.params)))

ParametersFromDict(h, item) == FromDictFrom(h, item.parameters, 1, <<>>)

-----------------------------------------------------------------------------
(* models_to_dict and its helpers *)

\* The parameters in the order the two loops of _rename_shared_parameters
\* (and of _restore_shared_parameters) visit them.
Visited(h, list) == Concat([j \in 1..Len(list) |-> Flat(h, list[j])])

\* The first loop of _rename_shared_parameters: params_shared
RECURSIVE ScanShared(_, _, _, _)
ScanShared(seq, i, params_list, params_shared) ==
    IF i > Len(seq) THEN params_shared
    ELSE IF ~InSeq(seq[i], params_list)
         THEN ScanShared(seq, i + 1, Append(params_list, seq[i]), params_shared)
    ELSE IF ~InSeq(seq[i], params_shared)
         THEN ScanShared(seq, i + 1, params_list, Append(params_shared, seq[i]))
    ELSE ScanShared(seq, i + 1, params_list, params_shared)

ParamsShared(h, list) == ScanShared(Visited(h, list), 1, <<>>, <<>>)

\* A rename that takes two parameters for one when their names are equal.
RenameEqualNames(h, list) ==
    LET v == Visited(h, list)
        first(p) == CHOOSE i \in 1..Len(v) : h.params[v[i]].name = h.params[p].name
                                             /\ \A j \in 1..(i - 1) : h.params[v[j]].name # h.params[p].name
        twice == {p \in {v[i] : i \in 1..Len(v)} :
                    Cardinality({i \in 1..Len(v) : h.params[v[i]].name = h.params[p].name}) > 1}
    IN  [h EXCEPT !.params =
            [p \in DOMAIN h.params |->
                IF p \in twice
                THEN [h.params[p] EXCEPT !.name = SharedName(@, first(p) - 1)]
                ELSE h.params[p]]]

\* _rename_shared_parameters(models)
RenameSharedParameters(h, list) ==
    LET shared == ParamsShared(h, list)
    IN  [h EXCEPT !.params =
            [p \in DOMAIN h.params |->
                IF InSeq(p, shared)
                THEN [h.params[p] EXCEPT !.name = SharedName(@, IndexOf(p, shared) - 1)]
                ELSE h.params[p]]]

\* _restore_shared_parameters(models)
RestoreSharedParameters(h, list) ==
    [h EXCEPT !.params =
        [p \in DOMAIN h.params |->
            IF InSeq(p, Visited(h, list))
            THEN [h.params[p] EXCEPT !.name = SplitAt0(@)]
            ELSE h.params[p]]]

\* _model_to_dict(model, selection)
ModelToDict(h, m) ==
    LET model == h.models[m]
        name == IF model.name = "" THEN model.cls ELSE model.name
        fkey == IF model.filename # "" THEN {"filename"} ELSE {}
    IN  IF model.cls = "SkyModel"
        THEN [keys |-> {"name", "spatial", "spectral"} \cup fkey,
              name |-> name, filename |-> model.filename,
              spatial |-> ToDict(h, model.sptype, model.spars),
              spectral |-> ToDict(h, model.sctype, model.cpars),
              model |-> NoSub]
        ELSE [keys |-> {"name", "model"} \cup fkey,
              name |-> name, filename |-> model.filename,
              spatial |-> NoSub, spectral |-> NoSub,
              model |-> ToDict(h, model.cls, model.pars)]

\* A loop pass without the de-duplication test.
AppendAlways(models_data, model_data) == Append(models_data, model_data)

\* One pass of the loop of models_to_dict: append unless an equal record is there.
AppendUnlessPresent(models_data, model_data) ==
    IF ~InSeq(model_data, models_data) THEN Append(models_data, model_data)
    ELSE models_data

\* The loop of models_to_dict from position j on: models_data
RECURSIVE ModelsData(_, _, _, _)
ModelsData(h, list, j, models_data) ==
    IF j > Len(list) THEN models_data
    ELSE ModelsData(h, list, j + 1,
                    AppendUnlessPresent(models_data, ModelToDict(h, list[j])))

\* models_to_dict(models, selection) when no to_dict raises: the heap it
\* leaves and the value of "components" it returns.
ModelsToDict(h, list) ==
    LET h1 == RenameSharedParameters(h, list)
    IN  [h |-> RestoreSharedParameters(h1, list),
         components |-> ModelsData(h1, list, 1, <<>>)]

-----------------------------------------------------------------------------
(* datasets_to_dict and its helpers *)

\* [model.name for model in models]
NamesOfModels(h, list) == [i \in 1..Len(list) |-> h.models[list[i]].name]

\* path + "data_" + dataset.name + ".fits", for the path the caller gives
Filename(name) == <<"data_", name, ".fits">>

\* The record datasets_to_dict appends for the dataset d.  The backgrounds
\* and the models of a dataset are lists here, a single model being a list
\* of one, as the two isinstance tests make them.
DatasetRecord(h, d) ==
    [name |-> d.name,
     filename |-> Filename(d.name),
     backgrounds |-> NamesOfModels(h, d.bkgs),
     models |-> NamesOfModels(h, d.skymodels)]

\* A collecting loop that takes the objects of the first dataset only.
AddFirstOnly(list, items) == IF list = <<>> THEN items ELSE list

\* "for model in models: if model not in models_list: models_list.append(model)"
RECURSIVE AddNew(_, _)
AddNew(list, items) ==
    IF items = <<>> THEN list
    ELSE AddNew(IF InSeq(Head(items), list) THEN list ELSE Append(list, Head(items)),
                Tail(items))

-----------------------------------------------------------------------------
(* dict_to_models and its helpers *)

\* A _dict_to_skymodel that reads model["spatial"] for the spectral part too.
DictToSkymodelSpatialTwice(h, rec) ==
    LET h1 == ParametersFromDict(h, rec.spatial)
        spars == Len(h1.conts)
        h2 == ParametersFromDict(h1, rec.spatial)
        cpars == Len(h2.conts)
    IN  SkyModel(h2, rec.name, rec.spatial.type, spars, rec.spatial.type, cpars)

\* _dict_to_skymodel(model): the sub-models are built from the record's
\* types and take their parameters from Parameters.from_dict.
DictToSkymodel(h, rec) ==
    LET h1 == ParametersFromDict(h, rec.spatial)
        spars == Len(h1.conts)
        h2 == ParametersFromDict(h1, rec.spectral)
        cpars == Len(h2.conts)
    IN  SkyModel(h2, rec.name, rec.spatial.type, spars, rec.spectral.type, cpars)

\* A loop that passes over every "model" record, whatever its type.
RECURSIVE DictToModelsSkipping(_, _, _, _)
DictToModelsSkipping(h, data, i, acc) ==
    IF i > Len(data) THEN [h |-> h, models |-> acc, raised |-> ""]
    ELSE IF "model" \in data[i].keys
         THEN DictToModelsSkipping(h, data, i + 1, acc)
    ELSE LET h1 == DictToSkymodel(h, data[i])
         IN  DictToModelsSkipping(h1, data, i + 1, Append(acc, Len(h1.models)))

\* A loop that raises for every "model" record, whatever its type.
RECURSIVE DictToModelsStrict(_, _, _, _)
DictToModelsStrict(h, data, i, acc) ==
    IF i > Len(data) THEN [h |-> h, models |-> acc, raised |-> ""]
    ELSE IF "model" \in data[i].keys
         THEN [h |-> h, models |-> acc, raised |-> "NotImplementedError"]
    ELSE LET h1 == DictToSkymodel(h, data[i])
         IN  DictToModelsStrict(h1, data, i + 1, Append(acc, Len(h1.models)))

\* The loop of dict_to_models from record i on; `acc` is the list `models`.
RECURSIVE DictToModelsFrom(_, _, _, _)
DictToModelsFrom(h, data, i, acc) ==
    IF i > Len(data) THEN [h |-> h, models |-> acc, raised |-> ""]
    ELSE IF "model" \in data[i].keys
         THEN IF data[i].model.type = "BackgroundModel"
              THEN DictToModelsFrom(h, data, i + 1, acc)
              ELSE [h |-> h, models |-> acc, raised |-> "NotImplementedError"]
    ELSE LET h1 == DictToSkymodel(h, data[i])
         IN  DictToModelsFrom(h1, data, i + 1, Append(acc, Len(h1.models)))

\* container c with slot ind overwritten: params.parameters[ind] = new_param
SetSlot(h, c, ind, p) == [h EXCEPT !.conts[c][ind] = p]

EmptyRegister == [n \in {} |-> 0]

Register(reg, name, p) ==
    [n \in DOMAIN reg \cup {name} |-> IF n = name THEN p ELSE reg[n]]

\* A replacement that overwrites the flat slot and forgets the nested ones.
ReplaceSharedFlatOnly(h, m, name, new_param) ==
    SetSlot(h, h.models[m].pars, IndexOf(name, Names(h, h.models[m].pars)), new_param)

\* A replacement that overwrites the first slot instead of the named one.
ReplaceSharedFirstSlot(h, m, name, new_param) ==
    LET model == h.models[m]
        h1 == SetSlot(h, model.pars, 1, new_param)
    IN  IF model.cls = "SkyModel" THEN SetSlot(h1, model.spars, 1, new_param) ELSE h1

\* A replacement that overwrites the nested slot and leaves the flat one.
ReplaceSharedNestedOnly(h, m, name, new_param) ==
    LET model == h.models[m]
    IN  IF model.cls = "SkyModel"
        THEN IF InSeq(name, Names(h, model.spars))
             THEN SetSlot(h, model.spars, IndexOf(name, Names(h, model.spars)), new_param)
             ELSE IF InSeq(name, Names(h, model.cpars))
             THEN SetSlot(h, model.cpars, IndexOf(name, Names(h, model.cpars)), new_param)
             ELSE h
        ELSE SetSlot(h, model.pars, IndexOf(name, Names(h, model.pars)), new_param)

\* The body of "if name in shared_register": the flat slot, and for a
\* SkyModel the spatial or else the spectral slot, take the registered object.
ReplaceShared(h, m, name, new_param) ==
    LET model == h.models[m]
        h1 == SetSlot(h, model.pars, IndexOf(name, Names(h, model.pars)), new_param)
    IN  IF model.cls = "SkyModel"
        THEN IF InSeq(name, Names(h1, model.spars))
             THEN SetSlot(h1, model.spars, IndexOf(name, Names(h1, model.spars)), new_param)
             ELSE IF InSeq(name, Names(h1, model.cpars))
             THEN SetSlot(h1, model.cpars, IndexOf(name, Names(h1, model.cpars)), new_param)
             ELSE h1
        ELSE h1

\* "for param in model.parameters" of _link_shared_parameters, from slot i on
RECURSIVE LinkParams(_, _, _, _)
LinkParams(h, reg, m, i) ==
    IF i > Len(Flat(h, m)) THEN [h |-> h, reg |-> reg]
    ELSE LET p == Flat(h, m)[i]
             name == h.params[p].name
         IN  IF HasAt(name)
             THEN IF name \in DOMAIN reg
                  THEN LinkParams(ReplaceShared(h, m, name, reg[name]), reg, m, i + 1)
                  ELSE LinkParams([h EXCEPT !.params[p].name = SplitAt0(name)],
                                  Register(reg, name, p), m, i + 1)
             ELSE LinkParams(h, reg, m, i + 1)

\* "for model in models" of _link_shared_parameters, from position j on
RECURSIVE LinkModels(_, _, _, _)
LinkModels(h, reg, list, j) ==
    IF j > Len(list) THEN h
    ELSE LET r == LinkParams(h, reg, list[j], 1)
         IN  LinkModels(r.h, r.reg, list, j + 1)

\* _link_shared_parameters(models)
LinkSharedParameters(h, list) == LinkModels(h, EmptyRegister, list, 1)

-----------------------------------------------------------------------------
(* dict_to_datasets and its helpers *)

\* A dict_to_models that links whatever `link` is.
DictToModelsLinking(h, data, lnk) ==
    LET r == DictToModelsFrom(h, data, 1, <<>>)
    IN  IF r.raised = ""
        THEN [r EXCEPT !.h = LinkSharedParameters(r.h, r.models)]
        ELSE r

\* dict_to_models(data, link) as one call
DictToModels(h, data, lnk) ==
    LET r == DictToModelsFrom(h, data, 1, <<>>)
    IN  IF r.raised = "" /\ lnk
        THEN [r EXCEPT !.h = LinkSharedParameters(r.h, r.models)]
        ELSE r

\* name.strip().upper(), on the background names of the model
Upper(n) == IF n \in {"bkg", "Bkg", "BKG"} THEN "BKG" ELSE n

\* A new BackgroundModel: its own parameters (norm at its default), the
\* given name, and the cube it was evaluated from (0: a map read from a file).
NewBackground(h, name, cube) ==
    LET h1 == AllocParam(h, Name("norm"), DefaultValue, "")
        h2 == AllocCont(h1, <<Len(h1.params)>>)
    IN  PlainModel(h2, "BackgroundModel", name, "", Len(h2.conts), cube)

\* BackgroundModel.from_skymodel(cube, exposure, psf, edisp): a new
\* BackgroundModel under the default name.
FromSkymodel(h, cube) == NewBackground(h, "background", cube)

\* MapDataset.read(filename, name): a new dataset holding the one
\* background the file stores; the result's dataset is the last of dsets.
ReadDataset(h, ds, name, stored) ==
    LET h1 == NewBackground(h, stored, 0)
    IN  [h |-> h1,
         dsets |-> Append(ds, [name |-> name, bkgs |-> <<Len(h1.models)>>, skymodels |-> <<>>])]

\* The cube branch with the register never consulted: every call reads.
CubeBackgroundNoCache(h, cs, creg, rds, component) ==
    LET cs1 == Append(cs, [filename |-> component.filename])
        h1 == FromSkymodel(h, Len(cs1))
        bg == Len(h1.models)
    IN  [h |-> [h1 EXCEPT !.models[bg].name = component.name],
         cubes |-> cs1,
         cube_register |-> Register(creg, component.name, Len(cs1)),
         reads |-> Append(rds, [name |-> component.name,
                                filename |-> component.filename, cube |-> Len(cs1)]),
         bg |-> bg, raised |-> ""]

\* The cube branch with the background model cached along with its cube.
CubeBackgroundSameInstance(h, cs, creg, rds, component) ==
    IF component.name \in DOMAIN creg
    THEN [h |-> h, cubes |-> cs, cube_register |-> creg, reads |-> rds,
          bg |-> CHOOSE b \in 1..Len(h.models) : h.models[b].cube = creg[component.name],
          raised |-> ""]
    ELSE CubeBackgroundNoCache(h, cs, creg, rds, component)

\* add_background, the branch of a component with a "filename": the cube
\* comes from self.cube_register (creg) or, on a KeyError, from its file,
\* and a new BackgroundModel is built from it and renamed.  cs are the cube
\* objects, rds the file reads so far.
CubeBackground(h, cs, creg, rds, component) ==
    LET hit == component.name \in DOMAIN creg
        cs1 == IF hit THEN cs ELSE Append(cs, [filename |-> component.filename])
        cube == IF hit THEN creg[component.name] ELSE Len(cs1)
        h1 == FromSkymodel(h, cube)
        bg == Len(h1.models)
    IN  [h |-> [h1 EXCEPT !.models[bg].name = component.name],
         cubes |-> cs1,
         cube_register |-> IF hit THEN creg ELSE Register(creg, component.name, cube),
         reads |-> IF hit THEN rds
                   ELSE Append(rds, [name |-> component.name,
                                     filename |-> component.filename, cube |-> cube]),
         bg |-> bg, raised |-> ""]

\* A lookup that falls back on the first background of the dataset when
\* no name matches.
ExistingBackgroundOrFirst(h, cs, creg, rds, d, component, prev) ==
    LET BGind == IF InSeq(Upper(component.name), prev)
                 THEN IndexOf(Upper(component.name), prev)
                 ELSE IF InSeq(component.name, prev)
                 THEN IndexOf(component.name, prev)
                 ELSE 1
        bg == d.bkgs[BGind]
    IN  [h |-> [h EXCEPT !.models[bg].name = component.name],
         cubes |-> cs, cube_register |-> creg, reads |-> rds,
         bg |-> bg, raised |-> ""]

\* add_background, the branch of a component without a "filename": the
\* background the dataset (d) already holds under the upper-cased or the
\* exact name is renamed; BGind is read unassigned when neither is there.
ExistingBackground(h, cs, creg, rds, d, component, prev) ==
    IF InSeq(Upper(component.name), prev) \/ InSeq(component.name, prev)
    THEN LET BGind == IF InSeq(Upper(component.name), prev)
                      THEN IndexOf(Upper(component.name), prev)
                      ELSE IndexOf(component.name, prev)
             bg == d.bkgs[BGind]
         IN  [h |-> [h EXCEPT !.models[bg].name = component.name],
              cubes |-> cs, cube_register |-> creg, reads |-> rds,
              bg |-> bg, raised |-> ""]
    ELSE [h |-> h, cubes |-> cs, cube_register |-> creg, reads |-> rds,
          bg |-> 0, raised |-> "UnboundLocalError"]

\* add_background(dataset, component, bkg_prev)
AddBackground(h, cs, creg, rds, d, component, prev) ==
    IF "filename" \in component.keys
    THEN CubeBackground(h, cs, creg, rds, component)
    ELSE ExistingBackground(h, cs, creg, rds, d, component, prev)

\* link_background_parameters(component, background_model)
LinkBackgroundParameters(h, preg, component, bg) ==
    LET hit == component.name \in DOMAIN preg
        h1 == IF hit THEN h ELSE ParametersFromDict(h, component.model)
        prms == IF hit THEN preg[component.name] ELSE Len(h1.conts)
    IN  [h |-> [h1 EXCEPT !.models[bg].pars = prms],
         params_register |-> IF hit THEN preg ELSE Register(preg, component.name, prms)]

\* A test that passes every BackgroundModel component, listed or not.
IsBackgroundAny(component, bkg_names) ==
    "model" \in component.keys /\ component.model.type = "BackgroundModel"

\* The test of the loop of update_dataset on one component
IsBackgroundOf(component, bkg_names) ==
    /\ "model" \in component.keys
    /\ component.model.type = "BackgroundModel"
    /\ InSeq(component.name, bkg_names)

\* A selection that goes through the names and takes the models of each.
NamedModelsByName(h, list, model_names) ==
    Concat([k \in 1..Len(model_names) |->
               SelectSeq(list, LAMBDA m : h.models[m].name = model_names[k])])

\* [model for model in self.models if model.name in model_names]
NamedModels(h, list, model_names) ==
    SelectSeq(list, LAMBDA m : InSeq(h.models[m].name, model_names))

-----------------------------------------------------------------------------
(* The models a caller builds before serializing.  A descriptor gives the  *)
(* class of one model; a SkyModel has one spatial parameter (slot 1) and   *)
(* one spectral parameter (slot 2), any other model one parameter.  The    *)
(* base name and the unit of a parameter are those its model class gives   *)
(* it: SkyGaussian and SpectralGaussian both call theirs "sigma".  A       *)
(* model without a name attribute (name = "") is a bare spectral model.    *)

ModelNames == {"a", "b"}

SkyDescs ==
    [cls : {"SkyModel"}, name : ModelNames, sctype : {"PowerLaw", "SpectralGaussian"}]

PlainDescs ==
    {[cls |-> "BackgroundModel", name |-> "bkg", sctype |-> ""],
     [cls |-> "PowerLaw", name |-> "", sctype |-> ""]}

Descs == SkyDescs \cup PlainDescs

SlotsOf(d) == IF d.cls = "SkyModel" THEN 1..2 ELSE {1}

SlotBase(d, k) ==
    IF d.cls = "SkyModel"
    THEN IF k = 1 \/ d.sctype = "SpectralGaussian" THEN "sigma" ELSE "index"
    ELSE IF d.cls = "BackgroundModel" THEN "norm" ELSE "index"

SlotUnit(d, k) ==
    IF d.cls = "SkyModel"
    THEN IF k = 1 THEN "deg" ELSE IF d.sctype = "SpectralGaussian" THEN "TeV" ELSE ""
    ELSE ""

\* Slot k of model i, numbered through all models.
Slot(i, k) == 2 * (i - 1) + k

\* alias[s] = 0: slot s holds a parameter object of its own; alias[s] = t:
\* slot s holds the object of the earlier slot t (a linked parameter, which
\* replaces one of the same name).
Aliases(bp) ==
    LET n == Len(bp)
        used == {Slot(i, k) : i \in 1..n, k \in 1..2} \ {Slot(i, 2) : i \in {j \in 1..n : bp[j].cls # "SkyModel"}}
        base(s) == SlotBase(bp[(s + 1) \div 2], 2 - (s % 2))
    IN  {al \in [1..(2 * n) -> 0..(2 * n)] :
            /\ Cardinality({s \in 1..(2 * n) : al[s] # 0}) <= MaxShared
            /\ \A s \in 1..(2 * n) :
                  al[s] # 0 => /\ al[s] < s
                               /\ s \in used
                               /\ al[s] \in used
                               /\ al[al[s]] = 0
                               /\ base(s) = base(al[s])}

\* The heap after the caller built the models of bp, from model i on;
\* pid[s] is the parameter object slot s holds.
RECURSIVE BuildFrom(_, _, _, _, _)
BuildFrom(bp, al, i, h, pid) ==
    IF i > Len(bp) THEN h
    ELSE LET d == bp[i]
             s1 == Slot(i, 1)
             s2 == Slot(i, 2)
             h1 == IF al[s1] = 0
                   THEN AllocParam(h, Name(SlotBase(d, 1)), DefaultValue, SlotUnit(d, 1))
                   ELSE h
             p1 == IF al[s1] = 0 THEN Len(h1.params) ELSE pid[al[s1]]
             h2 == IF d.cls = "SkyModel" /\ al[s2] = 0
                   THEN AllocParam(h1, Name(SlotBase(d, 2)), DefaultValue, SlotUnit(d, 2))
                   ELSE h1
             p2 == IF d.cls # "SkyModel" THEN 0
                   ELSE IF al[s2] = 0 THEN Len(h2.params) ELSE (pid \o <<p1>>)[al[s2]]
             h3 == AllocCont(h2, <<p1>>)
         IN  IF d.cls = "SkyModel"
             THEN LET h4 == AllocCont(h3, <<p2>>)
                  IN  BuildFrom(bp, al, i + 1,
                                SkyModel(h4, d.name, "SkyGaussian", Len(h3.conts),
                                         d.sctype, Len(h4.conts)),
                                pid \o <<p1, p2>>)
             ELSE BuildFrom(bp, al, i + 1,
                            PlainModel(h3, d.cls, d.name, "", Len(h3.conts), 0),
                            pid \o <<p1, p2>>)

Build(bp, al) == BuildFrom(bp, al, 1, NoHeap, <<>>)

\* The model names are handed out in order: a name is used only after the
\* names before it (which name is which makes no difference to the code).
NameOrder == <<"a", "b">>

Blueprints ==
    {bp \in OneOrTwo(Descs) :
        \A i \in 1..Len(bp) :
            bp[i].cls = "SkyModel" =>
                \A k \in 1..(IndexOf(bp[i].name, NameOrder) - 1) :
                    \E j \in 1..(i - 1) : bp[j].cls = "SkyModel" /\ bp[j].name = NameOrder[k]}

\* The lists over the models 1..n that name every one of them; the models
\* are numbered in the order in which the list first names them.
Lists(n) ==
    {l \in Seqs(1..n, n, MaxList) :
        /\ \A m \in 1..n : InSeq(m, l)
        /\ \A m \in 1..(n - 1) : IndexOf(m, l) < IndexOf(m + 1, l)}

-----------------------------------------------------------------------------
(* The caller of the model-list codec *)

Init ==
    \E bp \in Blueprints :
      \E al \in Aliases(bp) :
        \E l \in Lists(Len(bp)) :
          /\ params = Build(bp, al).params
          /\ conts = Build(bp, al).conts
          /\ models = Build(bp, al).models
          /\ cur = l
          /\ pre = Build(bp, al).params
          /\ mi = 0
          /\ mdata = <<>>
          /\ comps = <<>>
          /\ link = FALSE
          /\ out = <<>>
          /\ raised = ""
          /\ rounds = 0
          /\ edits = 0
          /\ pc = "idle"
          /\ index = <<>> /\ files = <<>> /\ dsets = <<>> /\ cubes = <<>> /\ reads = <<>>
          /\ earlier = <<>>
          /\ wdatasets = <<>> /\ si = 0 /\ models_list = <<>> /\ backgrounds_list = <<>>
          /\ datasets_dictlist = <<>> /\ written = <<>>
          /\ datasets_dict = <<>> /\ components_dict = <<>>
          /\ params_register = EmptyRegister /\ cube_register = EmptyRegister
          /\ smodels = <<>> /\ sbackgrounds = <<>> /\ sdatasets = <<>>
          /\ di = 0 /\ ci = 0 /\ dataset = 0 /\ bkg_prev = <<>> /\ backgrounds = <<>>

\* The caller sets the value of a parameter of one of its models:
\* model.parameters[i].value = v
SetValue(j, i, v) ==
    /\ pc = "idle"
    /\ edits < MaxEdits
    /\ j \in 1..Len(cur)
    /\ i \in 1..Len(Flat(Heap, cur[j]))
    /\ params[Flat(Heap, cur[j])[i]].value # v
    /\ params' = [params EXCEPT ![Flat(Heap, cur[j])[i]].value = v]
    /\ edits' = edits + 1
    /\ UNCHANGED <<conts, models, cur, pre, mi, mdata, comps, link, out, raised, rounds, pc, dsVars, wrVars>>

\* models_to_dict is called: _rename_shared_parameters(models), models_data = []
MtdCall ==
    /\ pc = "idle"
    /\ pre' = params
    /\ params' = RenameSharedParameters(Heap, cur).params
    /\ mi' = 1
    /\ mdata' = <<>>
    /\ raised' = ""
    /\ pc' = "mtd_loop"
    /\ UNCHANGED <<conts, models, cur, comps, link, out, rounds, edits, dsVars, wrVars>>

\* One pass of "for model in models": the record is built and appended
\* unless an equal one is in models_data.
MtdIter ==
    /\ pc = "mtd_loop"
    /\ mi <= Len(cur)
    /\ mdata' = AppendUnlessPresent(mdata, ModelToDict(Heap, cur[mi]))
    /\ mi' = mi + 1
    /\ UNCHANGED <<params, conts, models, cur, pre, comps, link, out, raised, rounds, edits, pc, dsVars, wrVars>>

\* The to_dict of a model (or of a sub-model or parameter) raises inside
\* _model_to_dict: the exception leaves models_to_dict at once.
MtdRaise ==
    /\ pc = "mtd_loop"
    /\ mi <= Len(cur)
    /\ raised' = "to_dict"
    /\ pc' = "mtd_raised"
    /\ UNCHANGED <<params, conts, models, cur, pre, mi, mdata, comps, link, out, rounds, edits, dsVars, wrVars>>

\* The loop is over: _restore_shared_parameters(models) and the return.
MtdReturn ==
    /\ pc = "mtd_loop"
    /\ mi > Len(cur)
    /\ params' = RestoreSharedParameters(Heap, cur).params
    /\ comps' = mdata
    /\ pc' = "serialized"
    /\ UNCHANGED <<conts, models, cur, pre, mi, mdata, link, out, raised, rounds, edits, dsVars, wrVars>>

\* dict_to_models(data, link) up to "if link is True": the loop over
\* data["components"], which builds the models or raises.
DtmBuild(l) ==
    /\ pc = "serialized"
    /\ LET r == DictToModelsFrom(Heap, comps, 1, <<>>)
       IN  /\ params' = r.h.params
           /\ conts' = r.h.conts
           /\ models' = r.h.models
           /\ raised' = r.raised
           /\ out' = IF r.raised = "" THEN r.models ELSE <<>>
           /\ pc' = IF r.raised # "" THEN "dtm_raised"
                    ELSE IF l THEN "dtm_link" ELSE "deserialized"
    /\ link' = l
    /\ UNCHANGED <<cur, pre, mi, mdata, comps, rounds, edits, dsVars, wrVars>>

\* dict_to_models with link = True: _link_shared_parameters(models), return.
DtmLink ==
    /\ pc = "dtm_link"
    /\ LET h == LinkSharedParameters(Heap, out)
       IN  /\ params' = h.params
           /\ conts' = h.conts
           /\ models' = h.models
    /\ pc' = "deserialized"
    /\ UNCHANGED <<cur, pre, mi, mdata, comps, link, out, raised, rounds, edits, dsVars, wrVars>>

\* The caller goes on with the models dict_to_models returned.
Adopt ==
    /\ pc = "deserialized"
    /\ rounds < MaxRounds
    /\ cur' = out
    /\ rounds' = rounds + 1
    /\ pre' = params
    /\ mi' = 0
    /\ mdata' = <<>>
    /\ comps' = <<>>
    /\ out' = <<>>
    /\ pc' = "idle"
    /\ UNCHANGED <<params, conts, models, link, raised, edits, dsVars, wrVars>>

Next ==
    \/ \E j \in 1..MaxList, i \in 1..2, v \in Values : SetValue(j, i, v)
    \/ MtdCall
    \/ MtdIter
    \/ MtdRaise
    \/ MtdReturn
    \/ \E l \in BOOLEAN : DtmBuild(l)
    \/ DtmLink
    \/ Adopt

Spec == Init /\ [][Next]_vars

-----------------------------------------------------------------------------
(* The caller of the dataset reconstructor: the components and the index   *)
(* it passes, and the dataset files on disk.                               *)

BgRecord(name, filename, tail) ==
    [keys |-> {"name", "model"} \cup (IF filename # "" THEN {"filename"} ELSE {}),
     name |-> name, filename |-> filename, spatial |-> NoSub, spectral |-> NoSub,
     model |-> [type |-> "BackgroundModel",
                parameters |-> <<[name |-> [base |-> "norm", tail |-> tail],
                                  value |-> 2, unit |-> ""]>>]]

SkyRecord(name) ==
    [keys |-> {"name", "spatial", "spectral"},
     name |-> name, filename |-> "",
     spatial |-> [type |-> "SkyGaussian",
                  parameters |-> <<[name |-> Name("sigma"), value |-> 1, unit |-> "deg"]>>],
     spectral |-> [type |-> "PowerLaw",
                   parameters |-> <<[name |-> [base |-> "index", tail |-> <<1>>],
                                     value |-> 2, unit |-> ""]>>],
     model |-> NoSub]

OtherRecord ==
    [keys |-> {"name", "model"}, name |-> "PowerLaw", filename |-> "",
     spatial |-> NoSub, spectral |-> NoSub,
     model |-> [type |-> "PowerLaw",
                parameters |-> <<[name |-> Name("index"), value |-> 2, unit |-> ""]>>]]

\* The last two records carry the hand-written name "norm@x".
ComponentRecords ==
    {BgRecord("bkg", f, <<0>>) : f \in {"", "cube.fits"}}
        \cup {BgRecord("Bkg", f, t) : f \in {"", "cube.fits"}, t \in {<<>>, <<0>>}}
        \cup {SkyRecord("a"), SkyRecord("b"), OtherRecord}
        \cup {BgRecord(n, "cube.fits", <<-1>>) : n \in {"bkg", "Bkg"}}

\* What one dataset adds to the index and to the disk.
IndexEntries ==
    {[backgrounds |-> e[1], models |-> e[2], stored |-> s] :
        e \in {<<(<<"bkg">>), (<<"a">>)>>, <<(<<"bkg", "Bkg">>), (<<"b", "a">>)>>},
        s \in {"BKG", "bkg"}}

DatasetNames == <<"d1", "d2", "d3", "d4">>

InitD ==
    \E cs \in OneOrTwo(ComponentRecords) :
      \E es \in Seqs(IndexEntries, 1, MaxDatasets) :
          /\ comps = cs
          /\ index = [k \in 1..Len(es) |->
                        [name |-> DatasetNames[k], filename |-> DatasetNames[k],
                         backgrounds |-> es[k].backgrounds, models |-> es[k].models]]
          /\ files = [k \in 1..Len(es) |-> es[k].stored]
          /\ params = <<>> /\ conts = <<>> /\ models = <<>>
          /\ dsets = <<>> /\ cubes = <<>> /\ reads = <<>> /\ earlier = <<>>
          /\ wdatasets = <<>> /\ si = 0 /\ models_list = <<>> /\ backgrounds_list = <<>>
          /\ datasets_dictlist = <<>> /\ written = <<>>
          /\ datasets_dict = <<>> /\ components_dict = <<>>
          /\ params_register = EmptyRegister /\ cube_register = EmptyRegister
          /\ smodels = <<>> /\ sbackgrounds = <<>> /\ sdatasets = <<>>
          /\ di = 0 /\ ci = 0 /\ dataset = 0 /\ bkg_prev = <<>> /\ backgrounds = <<>>
          /\ cur = <<>> /\ pre = <<>> /\ mi = 0 /\ mdata = <<>> /\ link = FALSE
          /\ out = <<>> /\ rounds = 0 /\ edits = 0
          /\ raised = ""
          /\ pc = "dtd_call"

\* An __init__ that goes on with the registers as it finds them.
DtdInitKeepingRegisters ==
    /\ pc = "dtd_call"
    /\ LET r == DictToModels(Heap, comps, FALSE)
       IN  /\ params' = r.h.params
           /\ conts' = r.h.conts
           /\ models' = r.h.models
           /\ raised' = r.raised
           /\ smodels' = IF r.raised = "" THEN r.models ELSE <<>>
           /\ pc' = IF r.raised = "" THEN "dtd_datasets" ELSE "dtd_raised"
    /\ sbackgrounds' = <<>>
    /\ sdatasets' = <<>>
    /\ di' = 1
    /\ UNCHANGED <<comps, codecVars, wrVars, index, files, dsets, cubes, reads, earlier,
                   params_register, cube_register, ci, dataset, bkg_prev, backgrounds>>

\* dict_to_datasets.__init__ up to its loop: the registers are emptied and
\* dict_to_models(components, link=False) builds self.models or raises.
DtdInit ==
    /\ pc = "dtd_call"
    /\ LET r == DictToModels(Heap, comps, FALSE)
       IN  /\ params' = r.h.params
           /\ conts' = r.h.conts
           /\ models' = r.h.models
           /\ raised' = r.raised
           /\ smodels' = IF r.raised = "" THEN r.models ELSE <<>>
           /\ pc' = IF r.raised = "" THEN "dtd_datasets" ELSE "dtd_raised"
    /\ params_register' = EmptyRegister
    /\ cube_register' = EmptyRegister
    /\ reads' = <<>>
    /\ sbackgrounds' = <<>>
    /\ sdatasets' = <<>>
    /\ di' = 1
    /\ UNCHANGED <<comps, codecVars, wrVars, index, files, dsets, cubes, earlier, ci, dataset,
                   bkg_prev, backgrounds>>

\* One pass of the loop of __init__ up to the loop of update_dataset: the
\* dataset is read and bkg_prev lists the names of its backgrounds.
DtdRead ==
    /\ pc = "dtd_datasets"
    /\ di <= Len(index)
    /\ LET r == ReadDataset(Heap, dsets, index[di].name, files[di])
       IN  /\ params' = r.h.params
           /\ conts' = r.h.conts
           /\ models' = r.h.models
           /\ dsets' = r.dsets
           /\ dataset' = Len(r.dsets)
           /\ bkg_prev' = [i \in 1..Len(r.dsets[Len(r.dsets)].bkgs) |->
                              r.h.models[r.dsets[Len(r.dsets)].bkgs[i]].name]
    /\ backgrounds' = <<>>
    /\ ci' = 1
    /\ pc' = "dtd_components"
    /\ UNCHANGED <<comps, raised, codecVars, wrVars, index, files, cubes, reads, earlier,
                   params_register, cube_register, smodels, sbackgrounds, sdatasets, di>>

\* One pass of the loop of update_dataset: a background component the
\* dataset names is resolved by add_background, takes its parameters from
\* link_background_parameters and joins the local and the global list.
DtdComponent ==
    /\ pc = "dtd_components"
    /\ ci <= Len(comps)
    /\ IF IsBackgroundOf(comps[ci], index[di].backgrounds)
       THEN LET a == AddBackground(Heap, cubes, cube_register, reads,
                                   dsets[dataset], comps[ci], bkg_prev)
            IN  IF a.raised # ""
                THEN /\ raised' = a.raised
                     /\ pc' = "dtd_raised"
                     /\ UNCHANGED <<params, conts, models, cubes, reads, params_register,
                                    cube_register, sbackgrounds, ci, backgrounds>>
                ELSE LET r == LinkBackgroundParameters(a.h, params_register, comps[ci], a.bg)
                     IN  /\ params' = r.h.params
                         /\ conts' = r.h.conts
                         /\ models' = r.h.models
                         /\ cubes' = a.cubes
                         /\ reads' = a.reads
                         /\ cube_register' = a.cube_register
                         /\ params_register' = r.params_register
                         /\ backgrounds' = Append(backgrounds, a.bg)
                         /\ sbackgrounds' = IF ~InSeq(a.bg, sbackgrounds)
                                            THEN Append(sbackgrounds, a.bg)
                                            ELSE sbackgrounds
                         /\ ci' = ci + 1
                         /\ UNCHANGED <<raised, pc>>
       ELSE /\ ci' = ci + 1
            /\ UNCHANGED <<params, conts, models, cubes, reads, params_register,
                           cube_register, sbackgrounds, backgrounds, raised, pc>>
    /\ UNCHANGED <<comps, codecVars, wrVars, index, files, dsets, earlier, smodels, sdatasets,
                   di, dataset, bkg_prev>>

\* The end of update_dataset and of the pass of the loop of __init__: the
\* dataset takes its backgrounds and its models and joins self.datasets.
DtdFinish ==
    /\ pc = "dtd_components"
    /\ ci > Len(comps)
    /\ dsets' = [dsets EXCEPT ![dataset].bkgs = backgrounds,
                              ![dataset].skymodels =
                                  NamedModels(Heap, smodels, index[di].models)]
    /\ sdatasets' = Append(sdatasets, dataset)
    /\ di' = di + 1
    /\ pc' = "dtd_datasets"
    /\ UNCHANGED <<params, conts, models, comps, raised, codecVars, wrVars, index, files, cubes,
                   reads, earlier, params_register, cube_register, smodels, sbackgrounds,
                   ci, dataset, bkg_prev, backgrounds>>

\* The loop of __init__ is over:
\* _link_shared_parameters(self.models + self.backgrounds)
DtdLink ==
    /\ pc = "dtd_datasets"
    /\ di > Len(index)
    /\ LET h == LinkSharedParameters(Heap, smodels \o sbackgrounds)
       IN  /\ params' = h.params
           /\ conts' = h.conts
           /\ models' = h.models
    /\ pc' = "dtd_done"
    /\ UNCHANGED <<comps, raised, codecVars, dsVars, wrVars>>

\* dict_to_datasets has raised and the caller calls it again with the same
\* arguments: a new instance is constructed, the one whose __init__ raised
\* was never bound to a name.
DtdRetry ==
    /\ pc = "dtd_raised"
    /\ Len(earlier) < MaxRetries
    /\ earlier' = Append(earlier, [cube_register |-> cube_register,
                                   params_register |-> params_register,
                                   reads |-> reads])
    /\ pc' = "dtd_call"
    /\ UNCHANGED <<params, conts, models, comps, raised, codecVars, wrVars, index, files, dsets,
                   cubes, reads, params_register, cube_register, smodels, sbackgrounds,
                   sdatasets, di, ci, dataset, bkg_prev, backgrounds>>

Reverse(s) == [i \in 1..Len(s) |-> s[Len(s) + 1 - i]]

\* The caller passes the datasets of the reconstruction, in their order or
\* in the reverse one, to datasets_to_dict: the three lists are empty.
DsdCall(ds) ==
    /\ pc = "dtd_done"
    /\ wdatasets' = ds
    /\ si' = 1
    /\ models_list' = <<>>
    /\ backgrounds_list' = <<>>
    /\ datasets_dictlist' = <<>>
    /\ pc' = "dsd_loop"
    /\ UNCHANGED <<params, conts, models, comps, raised, codecVars, dsVars, written,
                   datasets_dict, components_dict>>

\* One pass of "for dataset in datasets": the file is written, the record
\* joins datasets_dictlist, and the models and backgrounds not yet listed
\* join models_list and backgrounds_list.
DsdIter ==
    /\ pc = "dsd_loop"
    /\ si <= Len(wdatasets)
    /\ LET d == dsets[wdatasets[si]]
       IN  /\ written' = Append(written, Filename(d.name))
           /\ datasets_dictlist' = Append(datasets_dictlist, DatasetRecord(Heap, d))
           /\ models_list' = AddNew(models_list, d.skymodels)
           /\ backgrounds_list' = AddNew(backgrounds_list, d.bkgs)
    /\ si' = si + 1
    /\ UNCHANGED <<params, conts, models, comps, raised, pc, codecVars, dsVars, wdatasets,
                   datasets_dict, components_dict>>

\* dataset.write(filename, overwrite) raises (the file is there and
\* overwrite is false): the exception leaves datasets_to_dict.
DsdWriteRaise ==
    /\ pc = "dsd_loop"
    /\ si <= Len(wdatasets)
    /\ raised' = "write"
    /\ pc' = "dsd_raised"
    /\ UNCHANGED <<params, conts, models, comps, codecVars, dsVars, wrVars>>

\* The loop is over: models_to_dict(models_list + backgrounds_list, selection)
\* and the return of the two dicts.
DsdReturn ==
    /\ pc = "dsd_loop"
    /\ si > Len(wdatasets)
    /\ LET r == ModelsToDict(Heap, models_list \o backgrounds_list)
       IN  /\ params' = r.h.params
           /\ components_dict' = r.components
    /\ datasets_dict' = datasets_dictlist
    /\ pc' = "dsd_done"
    /\ UNCHANGED <<conts, models, comps, raised, codecVars, dsVars, wdatasets, si,
                   models_list, backgrounds_list, datasets_dictlist, written>>

\* The loop is over and a to_dict raises inside models_to_dict, which has
\* renamed the shared parameters: nothing is returned.
DsdToDictRaise ==
    /\ pc = "dsd_loop"
    /\ si > Len(wdatasets)
    /\ params' = RenameSharedParameters(Heap, models_list \o backgrounds_list).params
    /\ raised' = "to_dict"
    /\ pc' = "dsd_raised"
    /\ UNCHANGED <<conts, models, comps, codecVars, dsVars, wrVars>>

NextD ==
    \/ DtdInit
    \/ DtdRead
    \/ DtdComponent
    \/ DtdFinish
    \/ DtdLink
    \/ DtdRetry
    \/ \E ds \in {sdatasets, Reverse(sdatasets)} : DsdCall(ds)
    \/ DsdIter
    \/ DsdWriteRaise
    \/ DsdReturn
    \/ DsdToDictRaise

SpecD == InitD /\ [][NextD]_vars

-----------------------------------------------------------------------------
(* What the claims about the model-list codec speak of *)

\* The heap as models_to_dict saw it while it built the records: the
\* parameters as they were at the call, with the shared ones renamed.
SerHeap ==
    [Heap EXCEPT !.params = RenameSharedParameters([Heap EXCEPT !.params = pre], cur).params]

\* The records models_to_dict built for the models of its input, by position.
Records == LET sh == SerHeap IN [j \in 1..Len(cur) |-> ModelToDict(sh, cur[j])]

IsSkyRecord(rec) == ~("model" \in rec.keys)

Unsupported(rec) == "model" \in rec.keys /\ rec.model.type # "BackgroundModel"

\* The records of comps that hold a spatial/spectral pair, in order.
SkyRecords == SelectSeq(comps, IsSkyRecord)

\* The model dict_to_models built from the record of each sky model of the
\* input, by position: as many sky records stand up to that record in comps.
OutFor ==
    LET recs == Records
    IN  [j \in {i \in 1..Len(cur) : models[cur[i]].cls = "SkyModel"} |->
            out[Cardinality({r \in 1..IndexOf(recs[j], comps) : IsSkyRecord(comps[r])})]]

\* The nested collections of a SkyModel, spatial slots first.
Nested(m) == conts[models[m].spars] \o conts[models[m].cpars]

IsSky(m) == models[m].cls = "SkyModel"

\* Every parameter of every model of the input has the name it had at the call.
NamesKept ==
    \A j \in 1..Len(cur) : \A i \in 1..Len(Flat(Heap, cur[j])) :
        params[Flat(Heap, cur[j])[i]].name = pre[Flat(Heap, cur[j])[i]].name

\* Some parameter object is held by two models of the input (or twice by one).
InputShares == ParamsShared([Heap EXCEPT !.params = pre], cur) # <<>>

\* C1: after models_to_dict and dict_to_models(link=True), whenever two
\* sky models of the input held one parameter object in slots a and b, the
\* models rebuilt from them hold one object in slots a and b, in the flat
\* collection and in the nested spatial/spectral collections alike.
SharedIdentityRestored ==
    (pc = "deserialized" /\ link) =>
        LET o == OutFor
        IN  \A i, j \in DOMAIN o :
                \A a \in 1..Len(Flat(Heap, cur[i])), b \in 1..Len(Flat(Heap, cur[j])) :
                    Flat(Heap, cur[i])[a] = Flat(Heap, cur[j])[b] =>
                        /\ Flat(Heap, o[i])[a] = Flat(Heap, o[j])[b]
                        /\ Nested(o[i])[a] = Nested(o[j])[b]
                        /\ Flat(Heap, o[i])[a] = Nested(o[i])[a]

\* C1 witness: two different sky models shared a parameter object, were
\* serialized to two records and rebuilt as two models with linking.
SharedIdentityWitness ==
    /\ pc = "deserialized" /\ link
    /\ \E i, j \in DOMAIN OutFor :
          /\ cur[i] # cur[j]
          /\ OutFor[i] # OutFor[j]
          /\ \E a \in 1..2, b \in 1..2 :
                /\ Flat(Heap, cur[i])[a] = Flat(Heap, cur[j])[b]
                /\ Flat(Heap, OutFor[i])[a] = Flat(Heap, OutFor[j])[b]

\* C2: when a to_dict raises inside models_to_dict, every parameter of every
\* input model has, as the exception reaches the caller, its name of before
\* the call.
NamesKeptOnFailure == pc = "mtd_raised" => NamesKept

\* C3: when models_to_dict returns normally, every parameter of every input
\* model has its name of before the call.
NamesKeptOnReturn == pc = "serialized" => NamesKept

\* No parameter of the input had an "@" in its name at the call.
InputNamesPlain ==
    \A j \in 1..Len(cur) : \A i \in 1..Len(Flat(Heap, cur[j])) :
        ~HasAt(pre[Flat(Heap, cur[j])[i]].name)

\* Model o has the type, name, parameter values and units of model m.
SameModel(m, o) ==
    /\ models[o].cls = models[m].cls
    /\ models[o].name = models[m].name
    /\ models[o].sptype = models[m].sptype
    /\ models[o].sctype = models[m].sctype
    /\ Len(Flat(Heap, o)) = Len(Flat(Heap, m))
    /\ Len(Nested(o)) = Len(Nested(m))
    /\ \A a \in 1..Len(Flat(Heap, m)) :
          /\ params[Flat(Heap, o)[a]].value = params[Flat(Heap, m)[a]].value
          /\ params[Flat(Heap, o)[a]].unit = params[Flat(Heap, m)[a]].unit
          /\ params[Nested(o)[a]].value = params[Nested(m)[a]].value
          /\ params[Nested(o)[a]].unit = params[Nested(m)[a]].unit

RoundTrips ==
    /\ Len(out) = Len(cur)
    /\ \A i \in 1..Len(cur) : SameModel(cur[i], out[i])

AllSky == \A j \in 1..Len(cur) : IsSky(cur[j])

\* C4 as claimed, read for lists of sky models: for every list with no
\* shared parameters dict_to_models(models_to_dict(models)) returns one model
\* per input model, in order, each with the type, name, parameter values and
\* units of the input model at its position.
RoundTripEveryList ==
    (pc = "deserialized" /\ AllSky /\ ~InputShares) => RoundTrips

\* C4 as amended: the same, for lists of sky models with no shared
\* parameters, no "@" in a parameter name and no two models with equal records.
RoundTripDistinctRecords ==
    (/\ pc = "deserialized" /\ AllSky /\ ~InputShares /\ InputNamesPlain
     /\ LET recs == Records IN \A i, j \in 1..Len(cur) : i # j => recs[i] # recs[j])
        => RoundTrips

\* C4 witness: two sky models that differ in a value only were serialized
\* and rebuilt as two models.
RoundTripWitness ==
    /\ pc = "deserialized" /\ AllSky /\ ~InputShares /\ InputNamesPlain
    /\ Len(cur) > 1 /\ Len(out) = Len(cur) /\ RoundTrips
    /\ models[cur[1]].name = models[cur[2]].name
    /\ \E a \in 1..2 : params[Flat(Heap, out[1])[a]].value # params[Flat(Heap, out[2])[a]].value

\* C5: when models_to_dict returns, no two records of "components" are
\* equal, and every input model, however often the list names it, has
\* exactly one record there.
OneRecordPerModel ==
    pc = "serialized" =>
        /\ \A r, q \in 1..Len(comps) : comps[r] = comps[q] => r = q
        /\ LET recs == Records
           IN  \A j \in 1..Len(cur) :
                   Cardinality({r \in 1..Len(comps) : comps[r] = recs[j]}) = 1

\* C5 witness: a list naming one model twice, and another model as well,
\* was serialized.
OneRecordWitness ==
    /\ pc = "serialized"
    /\ \E i, j \in 1..Len(cur) : i # j /\ cur[i] = cur[j]
    /\ Len(comps) = 2

\* C6: once dict_to_models has run its loop over a components list holding a
\* "model" record of a type other than "BackgroundModel", the caller has a
\* NotImplementedError and no model list, whatever `link` is and wherever
\* the record stands.
UnsupportedRaises ==
    (pc \in {"dtm_raised", "dtm_link", "deserialized"}
        /\ \E r \in 1..Len(comps) : Unsupported(comps[r]))
    => (pc = "dtm_raised" /\ raised = "NotImplementedError" /\ out = <<>>)

\* C6 witness: NotImplementedError for an unsupported record that stands
\* last, behind a record that is built.
UnsupportedWitness ==
    /\ pc = "dtm_raised" /\ raised = "NotImplementedError"
    /\ Len(comps) = 2 /\ IsSkyRecord(comps[1]) /\ Unsupported(comps[2])

\* The parameter entries of a sky record in slot order, spatial ones first.
Entries(rec) == rec.spatial.parameters \o rec.spectral.parameters

\* The entries of all sky records in the order dict_to_models meets them.
AllEntries == Concat([k \in 1..Len(SkyRecords) |-> Entries(SkyRecords[k])])

\* The first entry of the components that carries the given name.
FirstEntry(name) ==
    AllEntries[CHOOSE i \in 1..Len(AllEntries) :
                  /\ AllEntries[i].name = name
                  /\ \A j \in 1..(i - 1) : AllEntries[j].name # name]

\* One model per sky record, in record order, with the record's name.
ModelPerSkyRecord ==
    /\ Len(out) = Len(SkyRecords)
    /\ \A k \in 1..Len(out) :
          /\ IsSky(out[k])
          /\ models[out[k]].name = SkyRecords[k].name
          /\ Len(Flat(Heap, out[k])) = Len(Entries(SkyRecords[k]))

\* C7 as claimed: dict_to_models raises only for an unsupported record, and
\* when it returns, it returns one sky model per record with a
\* spatial/spectral pair, in record order, each with its record's name and
\* its record's parameter values.
RecordValuesCarried ==
    /\ pc = "dtm_raised" => \E r \in 1..Len(comps) : Unsupported(comps[r])
    /\ pc = "deserialized" =>
          /\ ModelPerSkyRecord
          /\ \A k \in 1..Len(out) : \A a \in 1..Len(Flat(Heap, out[k])) :
                params[Flat(Heap, out[k])[a]].value = Entries(SkyRecords[k])[a].value

\* C7 as amended: the same, except that with link = True a parameter whose
\* name contains "@" carries the value of the first entry of the components
\* with that name (it is the object built for that entry).
LinkedValuesCarried ==
    /\ pc = "dtm_raised" => \E r \in 1..Len(comps) : Unsupported(comps[r])
    /\ pc = "deserialized" =>
          /\ ModelPerSkyRecord
          /\ \A k \in 1..Len(out) : \A a \in 1..Len(Flat(Heap, out[k])) :
                LET e == Entries(SkyRecords[k])[a]
                IN  params[Flat(Heap, out[k])[a]].value =
                        IF link /\ HasAt(e.name) THEN FirstEntry(e.name).value
                        ELSE e.value

\* C7 witness: dict_to_models returned, with linking, the one model of a
\* sky record that stands behind a BackgroundModel record; the model holds a
\* value the caller had set.
LinkedValuesWitness ==
    /\ pc = "deserialized" /\ link
    /\ Len(comps) = 2 /\ ~IsSkyRecord(comps[1]) /\ IsSkyRecord(comps[2])
    /\ Len(out) = 1 /\ models[out[1]].name = comps[2].name
    /\ \E a \in 1..2 : params[Flat(Heap, out[1])[a]].value # DefaultValue

-----------------------------------------------------------------------------
(* What the claims about the dataset reconstructor speak of *)

\* Component r is a background component that dataset k of the index names.
Resolved(k, r) == IsBackgroundOf(comps[r], index[k].backgrounds)

FileBacked(rec) == "filename" \in rec.keys

\* The background model component r was resolved to for the k-th dataset
\* of self.datasets: backgrounds are collected in component order.
BgFor(k, r) ==
    dsets[sdatasets[k]].bkgs[Cardinality({q \in 1..r : Resolved(k, q)})]

\* dict_to_datasets has run its loop over the index.
Reconstructed == pc = "dtd_done" \/ (pc = "dtd_datasets" /\ di > Len(index))

\* C8: during one reconstruction no component name has its cube file read
\* twice; cube_register holds, for exactly the names read, the cube of that
\* one read (so no entry was replaced or removed), and every background
\* the reconstruction built from a cube holds a cube of the register.
CubeReadOnce ==
    /\ \A i, j \in 1..Len(reads) : reads[i].name = reads[j].name => i = j
    /\ DOMAIN cube_register = {reads[i].name : i \in 1..Len(reads)}
    /\ \A i \in 1..Len(reads) : cube_register[reads[i].name] = reads[i].cube
    /\ \A k \in 1..Len(sbackgrounds) :
          models[sbackgrounds[k]].cube # 0 =>
              \E n \in DOMAIN cube_register :
                  /\ models[sbackgrounds[k]].name = n
                  /\ cube_register[n] = models[sbackgrounds[k]].cube

\* C8 witness: two datasets that both name one file-backed component are
\* reconstructed with a single read.
CubeReadOnceWitness ==
    /\ pc = "dtd_done" /\ Len(sdatasets) = 2 /\ Len(reads) = 1
    /\ \E r \in 1..Len(comps) :
          FileBacked(comps[r]) /\ Resolved(1, r) /\ Resolved(2, r)
          /\ models[BgFor(1, r)].cube = models[BgFor(2, r)].cube

BothName(k1, k2, r) ==
    k1 # k2 /\ FileBacked(comps[r]) /\ Resolved(k1, r) /\ Resolved(k2, r)

\* C9 as claimed: after the reconstruction, two datasets that both name a
\* file-backed background component hold one and the same background model
\* instance for it.
SameBackgroundInstance ==
    pc = "dtd_done" =>
        \A k1, k2 \in 1..Len(sdatasets) : \A r \in 1..Len(comps) :
            BothName(k1, k2, r) => BgFor(k1, r) = BgFor(k2, r)

\* C9 as amended: the two datasets hold two different background model
\* instances for it, both built from the one cube instance the register
\* holds under the component's name.
SameCubeInstance ==
    pc = "dtd_done" =>
        \A k1, k2 \in 1..Len(sdatasets) : \A r \in 1..Len(comps) :
            BothName(k1, k2, r) =>
                /\ BgFor(k1, r) # BgFor(k2, r)
                /\ models[BgFor(k1, r)].cube = cube_register[comps[r].name]
                /\ models[BgFor(k2, r)].cube = cube_register[comps[r].name]

\* C9 witness: two reconstructed datasets name one file-backed component,
\* the first of them next to another background.
SameCubeWitness ==
    /\ pc = "dtd_done" /\ Len(sdatasets) = 2
    /\ Len(dsets[sdatasets[1]].bkgs) = 2
    /\ \E r \in 1..Len(comps) : BothName(1, 2, r)

\* C10: once the loop over the index is over, before and after the final
\* linking, two background models resolved from one component name hold
\* the same parameter objects.
BackgroundParamsIdentical ==
    Reconstructed =>
        \A k1, k2 \in 1..Len(sdatasets) : \A r1, r2 \in 1..Len(comps) :
            (Resolved(k1, r1) /\ Resolved(k2, r2) /\ comps[r1].name = comps[r2].name)
                => Flat(Heap, BgFor(k1, r1)) = Flat(Heap, BgFor(k2, r2))

-----------------------------------------------------------------------------
(* The shared marker during serialization *)

\* The distinct model objects of the input that hold parameter object p.
Owners(p) == {cur[j] : j \in {i \in 1..Len(cur) : InSeq(p, Flat(Heap, cur[i]))}}

\* How often the walk over the models of the input meets parameter object p.
Occurrences(p) ==
    LET v == Visited(Heap, cur) IN Cardinality({i \in 1..Len(v) : v[i] = p})

\* The parameter objects the models of the input hold.
InputParams == LET v == Visited(Heap, cur) IN {v[i] : i \in 1..Len(v)}

\* C11 as claimed: while models_to_dict serializes, a parameter's name has
\* an "@" suffix if and only if two or more distinct model objects of the
\* input hold that parameter object.
SuffixIffTwoOwners ==
    pc = "mtd_loop" =>
        \A p \in InputParams : HasAt(params[p].name) <=> Cardinality(Owners(p)) > 1

\* C11 as amended: while models_to_dict serializes, a parameter has one
\* "@shared_k" appended to the name it had at the call if and only if the
\* walk over the parameters of the models of the list meets that object more
\* than once (in two models, twice in one model, or in a model the list
\* names twice); every other parameter has the name it had at the call.
SuffixIffRepeated ==
    pc = "mtd_loop" =>
        \A p \in InputParams :
            IF Occurrences(p) > 1
            THEN \E k \in 0..Cardinality(InputParams) :
                     params[p].name = SharedName(pre[p].name, k)
            ELSE params[p].name = pre[p].name

\* C11 witness: during a serialization one parameter object held by two
\* models is marked, while two other parameter objects of equal name and
\* value are not.
SuffixWitness ==
    /\ pc = "mtd_loop"
    /\ \E p \in InputParams : Cardinality(Owners(p)) > 1 /\ params[p].name # pre[p].name
    /\ \E p, q \in InputParams :
          /\ p # q /\ pre[p].name = pre[q].name /\ pre[p].value = pre[q].value
          /\ params[p].name = pre[p].name /\ params[q].name = pre[q].name

-----------------------------------------------------------------------------
(* The models of a reconstructed dataset *)

\* The models the k-th dataset of self.datasets holds.
ModelsOf(k) == dsets[sdatasets[k]].skymodels

\* C12: once update_dataset has run for a dataset, its models are exactly
\* the models of self.models whose names its index record lists, each once,
\* in the order of self.models; they are the instances built up front, so
\* two datasets that name a model hold one instance.
ModelsSelectedByName ==
    \A k \in 1..Len(sdatasets) :
        /\ \A i \in 1..Len(ModelsOf(k)) :
              /\ InSeq(ModelsOf(k)[i], smodels)
              /\ InSeq(models[ModelsOf(k)[i]].name, index[k].models)
        /\ \A j \in 1..Len(smodels) :
              InSeq(models[smodels[j]].name, index[k].models) => InSeq(smodels[j], ModelsOf(k))
        /\ \A i, j \in 1..Len(ModelsOf(k)) :
              i < j => IndexOf(ModelsOf(k)[i], smodels) < IndexOf(ModelsOf(k)[j], smodels)
        /\ \A q \in 1..Len(sdatasets) : \A i \in 1..Len(ModelsOf(k)), j \in 1..Len(ModelsOf(q)) :
              models[ModelsOf(k)[i]].name = models[ModelsOf(q)[j]].name
                  => \E m \in 1..Len(smodels) :
                         models[smodels[m]].name = models[ModelsOf(k)[i]].name
                         /\ InSeq(smodels[m], ModelsOf(k)) /\ InSeq(smodels[m], ModelsOf(q))

\* C12 witness: of two models built up front, in the order a, b, one
\* dataset holds both (its record lists b before a) and another holds a only.
ModelsSelectedWitness ==
    /\ pc = "dtd_done" /\ Len(sdatasets) = 2 /\ Len(smodels) = 2
    /\ models[smodels[1]].name = "a" /\ models[smodels[2]].name = "b"
    /\ index[1].models = <<"b", "a">> /\ ModelsOf(1) = smodels
    /\ ModelsOf(2) = <<smodels[1]>>

-----------------------------------------------------------------------------
(* Background names without a component *)

\* Record r of the components is a BackgroundModel record whose name the
\* k-th record of the index lists among its backgrounds.
Listed(k, r) ==
    /\ ~IsSkyRecord(comps[r]) /\ ~Unsupported(comps[r])
    /\ \E i \in 1..Len(index[k].backgrounds) : index[k].backgrounds[i] = comps[r].name

\* The records of the components the k-th record of the index lists, in order.
ListedOf(k) == SelectSeq([r \in 1..Len(comps) |-> r], LAMBDA r : Listed(k, r))

\* A background name of the k-th record of the index that no record of the
\* components has.
Missing(k) ==
    {index[k].backgrounds[i] : i \in 1..Len(index[k].backgrounds)}
        \ {comps[r].name : r \in 1..Len(comps)}

\* C13: a background name the index lists and the components lack raises
\* nothing: a reconstruction ends in an error only for an unsupported record
\* or for a listed component that add_background finds no background for,
\* and every dataset that was updated holds one background per listed
\* component, in components order, built from the registered cube of a
\* file-backed component and taken from the dataset file otherwise.
MissingNameSkipped ==
    /\ pc = "dtd_raised" =>
          \/ raised = "NotImplementedError" /\ \E r \in 1..Len(comps) : Unsupported(comps[r])
          \/ /\ raised = "UnboundLocalError"
             /\ Listed(di, ci) /\ ~FileBacked(comps[ci])
             /\ ~InSeq(Upper(comps[ci].name), bkg_prev) /\ ~InSeq(comps[ci].name, bkg_prev)
    /\ \A k \in 1..Len(sdatasets) :
          LET bkgs == dsets[sdatasets[k]].bkgs
              listed == ListedOf(k)
          IN  /\ Len(bkgs) = Len(listed)
              /\ \A i \in 1..Len(bkgs) :
                    /\ models[bkgs[i]].cls = "BackgroundModel"
                    /\ IF FileBacked(comps[listed[i]])
                       THEN models[bkgs[i]].cube = cube_register[comps[listed[i]].name]
                       ELSE models[bkgs[i]].cube = 0

\* C13 witness: a reconstruction is complete although a dataset lists a
\* background name no component has; the dataset holds the one background
\* of the component that matches.
MissingNameWitness ==
    /\ pc = "dtd_done"
    /\ \E k \in 1..Len(sdatasets) :
          Missing(k) # {} /\ Len(dsets[sdatasets[k]].bkgs) = 1 /\ Len(comps) = 2

-----------------------------------------------------------------------------
(* When the dataset reconstructor links *)

\* A step strips or changes the name of a parameter object, or overwrites a
\* slot of a Parameters container.
Relinks ==
    \/ \E p \in DOMAIN params : params'[p].name # params[p].name
    \/ \E c \in DOMAIN conts : conts'[c] # conts[c]

\* dict_to_datasets is at work: the next step is one of its own.
Reconstructing == pc \in {"dtd_call", "dtd_datasets", "dtd_components"}

\* The loop of __init__ has read and updated every dataset of the index.
AllUpdated == pc = "dtd_datasets" /\ di > Len(index) /\ Len(sdatasets) = Len(index)

\* Until the final linking the models built up front carry, slot by slot,
\* the parameter names of their records, "@shared_k" included.
NamesAsRecorded ==
    pc \in {"dtd_datasets", "dtd_components"} =>
        /\ Len(smodels) = Len(SkyRecords)
        /\ \A k \in 1..Len(smodels) : \A a \in 1..Len(Flat(Heap, smodels[k])) :
              /\ params[Flat(Heap, smodels[k])[a]].name = Entries(SkyRecords[k])[a].name
              /\ \A q \in 1..Len(smodels) : \A b \in 1..Len(Flat(Heap, smodels[q])) :
                    Flat(Heap, smodels[k])[a] = Flat(Heap, smodels[q])[b] => (k = q /\ a = b)

\* After the final linking no parameter of a global model or of a global
\* background has an "@" in its name.
AllLinked ==
    pc = "dtd_done" =>
        \A j \in 1..Len(smodels \o sbackgrounds) :
            \A a \in 1..Len(Flat(Heap, (smodels \o sbackgrounds)[j])) :
                ~HasAt(params[Flat(Heap, (smodels \o sbackgrounds)[j])[a]].name)

-----------------------------------------------------------------------------
(* What _link_shared_parameters does to the parameter collections *)

\* A step leaves every model with its collections and every collection with
\* its length; a slot that holds another object after the step held a
\* parameter with an "@" name before it, and the object it holds now had
\* that same name; every other slot holds the object it held.
SlotsPreserved ==
    /\ models' = models
    /\ DOMAIN conts' = DOMAIN conts
    /\ \A c \in DOMAIN conts :
          /\ Len(conts'[c]) = Len(conts[c])
          /\ \A i \in 1..Len(conts[c]) :
                conts'[c][i] # conts[c][i] =>
                    /\ HasAt(params[conts[c][i]].name)
                    /\ params[conts'[c][i]].name = params[conts[c][i]].name

\* C15: _link_shared_parameters keeps the slot order: the flat and the
\* nested collections of every model keep their length, a replacement
\* overwrites just the slot that held the parameter of the shared name, and
\* every other slot keeps its object.
LinkKeepsSlots == [][pc = "dtm_link" => SlotsPreserved]_vars

\* C15 witness: the linking replaced the spectral parameter (slot 2) of the
\* second model by that of the first and left the spatial slots alone.
LinkKeepsSlotsWitness ==
    /\ pc = "deserialized" /\ link /\ Len(out) = 2
    /\ Flat(Heap, out[1])[2] = Flat(Heap, out[2])[2]
    /\ conts[models[out[1]].cpars] = conts[models[out[2]].cpars]
    /\ Flat(Heap, out[1])[1] # Flat(Heap, out[2])[1]
    /\ conts[models[out[1]].spars] # conts[models[out[2]].spars]

-----------------------------------------------------------------------------
(* Which parameters take part in the linking *)

\* A step renames the parameter object p or overwrites a slot that held it.
TakesPart(p) ==
    \/ params'[p].name # params[p].name
    \/ \E c \in DOMAIN conts : \E i \in 1..Len(conts[c]) :
          conts[c][i] = p /\ conts'[c][i] # p

\* C16: in the linking that ends the reconstruction only a parameter whose
\* name contains "@shared_" takes part: any other parameter is neither
\* renamed nor replaced; and the linking raises no error.
OnlySharedTokenLinked ==
    [][AllUpdated =>
          /\ \A p \in DOMAIN params : TakesPart(p) => HasSharedToken(params[p].name)
          /\ raised' = "" /\ pc' = "dtd_done"]_vars

-----------------------------------------------------------------------------
(* Components that stand for a background the dataset file stores *)

SameIgnoringCase(a, b) == Upper(a) = Upper(b)

\* update_dataset is about to hand the component at ci to add_background,
\* and the component has no "filename".
ResolvingByName ==
    /\ pc = "dtd_components" /\ ci <= Len(comps)
    /\ IsBackgroundOf(comps[ci], index[di].backgrounds)
    /\ ~("filename" \in comps[ci].keys)

\* The positions of bkg_prev whose name is that of the component at ci,
\* exactly or ignoring letter case.
Matches == {i \in 1..Len(bkg_prev) : SameIgnoringCase(bkg_prev[i], comps[ci].name)}

\* C17: a component without a filename whose name is that of a background of
\* the freshly read dataset, exactly or ignoring letter case, resolves to
\* that background instance, which then carries the component's name.
ExistingResolved ==
    [][(ResolvingByName /\ Matches # {}) =>
          /\ pc' = "dtd_components" /\ raised' = raised
          /\ \E i \in Matches :
                /\ backgrounds' = Append(backgrounds, dsets[dataset].bkgs[i])
                /\ models'[dsets[dataset].bkgs[i]].name = comps[ci].name]_vars

\* Neither lookup of add_background finds the name of the component at ci:
\* bkg_prev holds neither the upper-cased nor the exact name.
NoMatch ==
    /\ ~InSeq(Upper(comps[ci].name), bkg_prev)
    /\ ~InSeq(comps[ci].name, bkg_prev)

\* The step ends the reconstruction with the error e and leaves the
\* backgrounds, the datasets and the registers as they were.
AbortsWith(e) ==
    /\ pc' = "dtd_raised" /\ raised' = e
    /\ UNCHANGED <<backgrounds, sbackgrounds, sdatasets, dsets, models,
                   params_register, cube_register>>

\* C18 as stated: a component without a filename that matches no background
\* of the dataset aborts the reconstruction with an index error.
UnmatchedRaisesIndexError ==
    [][(ResolvingByName /\ NoMatch) => AbortsWith("IndexError")]_vars

\* C18: a component without a filename that matches no background of the
\* dataset aborts the reconstruction with an UnboundLocalError (BGind is
\* read unassigned); the reconstruction never goes on with a wrong or a
\* missing background.
UnmatchedRaisesUnbound ==
    [][(ResolvingByName /\ NoMatch) => AbortsWith("UnboundLocalError")]_vars

\* C18 witness: the reconstruction stopped at a component without a filename
\* that the dataset names and whose name no background of the dataset has.
UnmatchedWitness ==
    /\ pc = "dtd_raised" /\ raised = "UnboundLocalError"
    /\ ~("filename" \in comps[ci].keys)
    /\ IsBackgroundOf(comps[ci], index[di].backgrounds)
    /\ NoMatch
    /\ backgrounds = <<>> /\ Len(sdatasets) < di

-----------------------------------------------------------------------------
(* The registers across a failed reconstruction and its retry *)

\* A reconstruction is under way: __init__ has passed its first lines.
Underway == pc # "dtd_call"

RegistersOwn ==
    Underway =>
        /\ \A k \in 1..Len(earlier) :
              /\ \A n \in DOMAIN cube_register, e \in DOMAIN earlier[k].cube_register :
                    cube_register[n] # earlier[k].cube_register[e]
              /\ \A n \in DOMAIN params_register, e \in DOMAIN earlier[k].params_register :
                    params_register[n] # earlier[k].params_register[e]
        /\ \A n \in DOMAIN cube_register :
              \E i \in 1..Len(reads) : reads[i].name = n /\ reads[i].cube = cube_register[n]

-----------------------------------------------------------------------------
(* The collections of the linked models *)

\* dict_to_models(data, link=True) has returned.
Linked == pc = "deserialized" /\ link

\* The parameter objects a model reaches through its flat or, for a
\* SkyModel, its nested collections.
Reachable(m) ==
    {Flat(Heap, m)[i] : i \in 1..Len(Flat(Heap, m))}
        \cup (IF IsSky(m) THEN {Nested(m)[i] : i \in 1..Len(Nested(m))} ELSE {})

\* C20: after _link_shared_parameters the flat collection of every SkyModel
\* is, slot for slot and object for object, its spatial collection followed
\* by its spectral one, also when both parts carried one shared name; and
\* no parameter a model reaches through its flat or nested collections has
\* an "@" in its name.
FlatIsNestedAfterLink ==
    Linked =>
        \A j \in 1..Len(out) :
            /\ IsSky(out[j]) => Flat(Heap, out[j]) = Nested(out[j])
            /\ \A p \in Reachable(out[j]) : ~HasAt(params[p].name)

\* C20 witness: the spatial and the spectral record of one model carried the
\* same shared name, and after the linking both parts of the model built
\* from it hold one parameter object.
FlatIsNestedWitness ==
    /\ Linked
    /\ \E r \in 1..Len(SkyRecords) :
          /\ SkyRecords[r].spatial.parameters[1].name = SkyRecords[r].spectral.parameters[1].name
          /\ HasAt(SkyRecords[r].spatial.parameters[1].name)
          /\ conts[models[out[r]].spars][1] = conts[models[out[r]].cpars][1]
          /\ Flat(Heap, out[r]) = Nested(out[r])

-----------------------------------------------------------------------------
(* Sharing that the input did not have *)

\* C21: no false sharing: after models_to_dict and dict_to_models, two
\* different slots of the models rebuilt from sky models of the input hold
\* one parameter object only if the slots they were serialized from held
\* one parameter object.
NoFalseSharing ==
    pc = "deserialized" =>
        LET o == OutFor
        IN  \A i, j \in DOMAIN o :
                \A a \in 1..Len(Flat(Heap, cur[i])), b \in 1..Len(Flat(Heap, cur[j])) :
                    (/\ Flat(Heap, o[i])[a] = Flat(Heap, o[j])[b]
                     /\ <<o[i], a>> # <<o[j], b>>)
                        => Flat(Heap, cur[i])[a] = Flat(Heap, cur[j])[b]

-----------------------------------------------------------------------------
(* The index and the components datasets_to_dict returns *)

\* The names of the records of the returned components.
ComponentNames == {components_dict[r].name : r \in 1..Len(components_dict)}

\* C22: what datasets_to_dict returns is consistent: the index holds one
\* record per dataset of the input, in the order of the input and under the
\* name of the dataset, and every name in the "models" and in the
\* "backgrounds" list of a record is the name of a record of the components.
IndexNamesInComponents ==
    pc = "dsd_done" =>
        /\ Len(datasets_dict) = Len(wdatasets)
        /\ \A k \in 1..Len(datasets_dict) :
              /\ datasets_dict[k].name = dsets[wdatasets[k]].name
              /\ Len(datasets_dict[k].models) = Len(dsets[wdatasets[k]].skymodels)
              /\ Len(datasets_dict[k].backgrounds) = Len(dsets[wdatasets[k]].bkgs)
              /\ \A i \in 1..Len(datasets_dict[k].models) :
                    datasets_dict[k].models[i] \in ComponentNames
              /\ \A i \in 1..Len(datasets_dict[k].backgrounds) :
                    datasets_dict[k].backgrounds[i] \in ComponentNames

\* C22 witness: datasets_to_dict returned the records of two datasets passed
\* in reverse order; the second record names a model and a background the
\* first does not name, and the components hold a record for each.
IndexNamesWitness ==
    /\ pc = "dsd_done" /\ Len(datasets_dict) = 2
    /\ datasets_dict[1].name = "d2" /\ datasets_dict[2].name = "d1"
    /\ \E i \in 1..Len(datasets_dict[2].models) :
          /\ ~InSeq(datasets_dict[2].models[i], datasets_dict[1].models)
          /\ datasets_dict[2].models[i] \in ComponentNames
    /\ \E i \in 1..Len(datasets_dict[2].backgrounds) :
          /\ ~InSeq(datasets_dict[2].backgrounds[i], datasets_dict[1].backgrounds)
          /\ datasets_dict[2].backgrounds[i] \in ComponentNames

====
